---- MODULE Spec2Model ----
(***************************************************************************)
(* One quiz-solving session of QuizSolver (src/quiz_solver.py) with its    *)
(* BrowserManager (src/browser.py): the traversal loop of solve_quiz, the  *)
(* single step _solve_single_quiz, the answer dispatch _solve_question and *)
(* the retry loop _submit_answer.  Every await of the code is one action;  *)
(* the synchronous code between two awaits belongs to the action of the    *)
(* await that precedes it.  Wall-clock time passes only inside awaits.     *)
(***************************************************************************)
EXTENDS Integers, Sequences, FiniteSets, TLC

\* ------------------------------------------------------------ constants
\* Config.MAX_QUIZ_TIME_SECONDS
MAX_QUIZ_TIME_SECONDS == 180
\* default of the parameter max_retries of _submit_answer
max_retries == 3
\* asyncio.sleep(1) between two submission attempts
BackoffSeconds == 1
\* self.start_time before solve_quiz has run (Python None)
NoTime == -1

\* --------------------------------------------------------------- bounds
\* pages solved in one session (caps the traversal the server can drive)
MaxSteps == 2
\* duration in seconds of an external call that is slow
SlowCall == 100

\* ------------------------------------------------------- value universe
\* Python None
None == "None"
\* quiz page URLs the scoring endpoint can name
URLs == {"q1", "q2"}
\* the argument initial_url of solve_quiz ("" is a falsy URL)
InitialUrls == URLs \cup {""}
\* answers _extract_answer can produce
Answers == {"42"}
\* time an await can take on top of its fixed sleeps
Latencies == {0, SlowCall}

\* Python truthiness of the values the loop tests (None, False, "" are falsy)
Truthy(v) == v \notin {None, "False", ""}

\* dict.get(key): the value, or None when the key is absent
Get(d, k) == IF k \in DOMAIN d THEN d[k] ELSE None

\* dict.get(key, default)
GetDefault(d, k, dflt) == IF k \in DOMAIN d THEN d[k] ELSE dflt

\* the summary slot before solve_quiz has executed a return statement
NoSummary == [pending |-> TRUE]

\* the response slot before any POST of the current step
NoResponse == [status |-> 0, body |-> [unparseable |-> TRUE], sent |-> FALSE]

VARIABLES
    pc,            \* position of the coroutine solve_quiz
    now,           \* wall clock, in seconds
    start_time,    \* self.start_time
    current_url,   \* local current_url of solve_quiz
    results,       \* local results of solve_quiz (the history)
    summary,       \* the value solve_quiz returns
    steps_begun,   \* calls of _solve_single_quiz made by solve_quiz
    email,         \* self.email
    secret,        \* self.secret
    playwright,    \* BrowserManager.playwright is set
    browser,       \* BrowserManager.browser is set
    page,          \* BrowserManager.page is set
    open,          \* browser resources currently alive
    start_calls,   \* invocations of BrowserManager.start
    close_calls,   \* invocations of BrowserManager.close
    url,           \* argument url of the running _solve_single_quiz
    result,        \* the dictionary _solve_single_quiz has returned
    step_started,  \* clock value when _solve_single_quiz was last called
    html,          \* html_content of the step
    question_info, \* question_info of the step
    answer,        \* answer of the step
    submit_url,    \* submit_url of the step
    attempt,       \* loop variable attempt of _submit_answer
    navs,          \* page.goto calls of the step
    llm_calls,     \* Reasoner calls of the step
    posts,         \* POSTs of the step
    sleeps,        \* back-off sleeps of the step
    last_resp,     \* the response to the latest POST of the step
    first200,      \* attempt (1-based) of the step's first HTTP 200, 0 if none
    last_nav,      \* how the step's latest page load ended, None otherwise
    payload,       \* local payload of _submit_answer
    sent,          \* the JSON body of the latest POST of the step
    api,           \* one request at the HTTP front door (src/app.py)
    multi,         \* two sessions running side by side in one process
    fn             \* one call of a pure helper: its input and its output

vars == <<pc, now, start_time, current_url, results, summary, steps_begun,
          email, secret, playwright,
          browser, page, open, start_calls, close_calls, url, result,
          step_started, html, question_info, answer, submit_url, attempt, navs, llm_calls,
          posts, sleeps, last_resp, first200, last_nav, payload, sent, api,
          multi, fn>>

sessionVars == <<start_time, current_url, results, summary, steps_begun,
                 email, secret>>
browserVars == <<playwright, browser, page, open, start_calls, close_calls>>
stepVars == <<url, result, step_started, html, question_info, answer, submit_url,
              attempt, navs, llm_calls, posts, sleeps, last_resp, first200,
              last_nav,
              payload, sent>>
\* the state of the other specifications of this module, idle in a session
auxVars == <<api, multi, fn>>
\* the solver of the session, idle in the other specifications
solverVars == <<pc, now, sessionVars, browserVars, stepVars>>

\* the locals of a step while no step holds them
NoInfo == [type |-> None]
NoHtml == <<>>
NoResult == [pending |-> TRUE]
NoPayload == [pending |-> TRUE]

\* the front door, the second session and the helper call while not in use
Idle == [pc |-> "idle"]

\* the caller's identity handed to QuizSolver(email, secret)
Emails == {"caller@example.com"}
Secrets == {"caller-secret"}

\* a QuizSolver after __init__ (and BrowserManager.__init__)
Constructed ==
    /\ pc = "entry"
    /\ now = 0
    /\ start_time = NoTime
    /\ current_url = None
    /\ results = <<>>
    /\ summary = NoSummary
    /\ steps_begun = 0
    /\ email \in Emails
    /\ secret \in Secrets
    /\ playwright = FALSE /\ browser = FALSE /\ page = FALSE
    /\ open = {}
    /\ start_calls = 0 /\ close_calls = 0
    /\ url = None
    /\ result = NoResult
    /\ step_started = NoTime
    /\ html = NoHtml
    /\ question_info = NoInfo
    /\ answer = None
    /\ submit_url = None
    /\ attempt = 0
    /\ navs = 0 /\ llm_calls = 0 /\ posts = 0 /\ sleeps = 0
    /\ last_resp = NoResponse
    /\ first200 = 0
    /\ last_nav = None
    /\ payload = NoPayload
    /\ sent = NoPayload

\* state after construction: one solver, about to run solve_quiz
Init ==
    /\ Constructed
    /\ api = Idle
    /\ multi = Idle
    /\ fn = Idle

\* ---------------------------------------------------- solve_quiz: exits
\* the dictionary returned at the end of the try block
SuccessSummary(res, t, st) ==
    [success |-> "True", results |-> res, total_time |-> t - st]

\* the dictionary returned by the except block
FailureSummary(res, e) ==
    [success |-> "False", error |-> e, results |-> res]

\* close() reached from the normal return only, not from the except block
ExitPcNoFinally(raised) == IF raised THEN "done" ELSE "close"

\* where control goes after a return statement of solve_quiz: the finally
\* block awaits browser.close() on every path
ExitPc(raised) == "close"

\* the limit taken as minutes instead of seconds
TimeExceededMinutes(t, st) == t - st > MAX_QUIZ_TIME_SECONDS * 60

\* the time-limit test at the top of the loop
TimeExceeded(t, st) == t - st > MAX_QUIZ_TIME_SECONDS

\* solve_quiz up to its first await
Enter ==
    /\ pc = "entry"
    /\ UNCHANGED auxVars
    /\ \E u \in InitialUrls : current_url' = u
    /\ start_time' = now
    /\ results' = <<>>
    /\ pc' = "start"
    /\ UNCHANGED <<now, summary, steps_begun, email, secret>>
    /\ UNCHANGED browserVars
    /\ UNCHANGED stepVars

\* -------------------------------------------------- BrowserManager.start
\* the points at which start can raise: creating playwright, launching the
\* browser, opening the context and the page
StartOutcomes == {"ok", "playwright", "launch", "page"}

\* await self.browser.start(), and the except block when it raises
BrowserStart ==
    /\ pc = "start"
    /\ UNCHANGED auxVars
    /\ start_calls' = start_calls + 1
    /\ \E o \in StartOutcomes :
         /\ playwright' = (o # "playwright")
         /\ browser' = (o \in {"ok", "page"})
         /\ page' = (o = "ok")
         /\ open' = CASE o = "ok" -> {"playwright", "browser", "page"}
                      [] o = "page" -> {"playwright", "browser"}
                      [] o = "launch" -> {"playwright"}
                      [] OTHER -> {}
         /\ IF o = "ok"
              THEN /\ pc' = "loop"
                   /\ summary' = summary
              ELSE /\ pc' = ExitPc(TRUE)
                   /\ summary' = FailureSummary(results, o)
    /\ UNCHANGED <<now, start_time, current_url, results, close_calls,
                   steps_begun, email, secret>>
    /\ UNCHANGED stepVars

\* -------------------------------------------------- BrowserManager.close
\* close() runs page.close, browser.close, playwright.stop in this order,
\* each only when the field is set; an exception skips the rest and is
\* swallowed.  failAt is the call that raises ("none": no call raises).
Closed(failAt) ==
    CASE failAt = "page" -> {}
      [] failAt = "browser" -> IF page THEN {"page"} ELSE {}
      [] failAt = "playwright" ->
            (IF page THEN {"page"} ELSE {}) \cup (IF browser THEN {"browser"} ELSE {})
      [] OTHER -> {"page", "browser", "playwright"}

\* a close that lets the exception of a failing call through
CloseRaisesOnFailure(failAt) == failAt # "none"

\* whether close() raises when the call failAt does: the calls are in a try
\* block whose except clause logs the exception
CloseRaises(failAt) == FALSE

\* the finally block of solve_quiz: await self.browser.close(); an
\* exception leaving the finally block would take the place of the summary
Close ==
    /\ pc = "close"
    /\ UNCHANGED auxVars
    /\ close_calls' = close_calls + 1
    /\ \E failAt \in {"none", "page", "browser", "playwright"} :
         /\ failAt = "page" => page
         /\ failAt = "browser" => browser
         /\ failAt = "playwright" => playwright
         /\ open' = open \ Closed(failAt)
         /\ summary' = IF CloseRaises(failAt) THEN NoSummary ELSE summary
    /\ pc' = "done"
    /\ UNCHANGED <<now, playwright, browser, page, start_calls>>
    /\ UNCHANGED <<start_time, current_url, results, steps_begun, email, secret>>
    /\ UNCHANGED stepVars

\* ------------------------------------------------- the results of a step
\* _solve_single_quiz, except block
ErrorResult(u, e) == [url |-> u, error |-> e, correct |-> "False"]

\* _solve_single_quiz, no submit URL
NoSubmitResult(u, a) ==
    [url |-> u, answer |-> a, correct |-> None, error |-> "No submit URL found"]

\* the loop variable reported without the + 1
OkResultZeroBased(u, a, body, att) ==
    [url |-> u, answer |-> a, correct |-> GetDefault(body, "correct", "False"),
     next_url |-> Get(body, "url"), reason |-> Get(body, "reason"),
     attempt |-> att]

\* _submit_answer, HTTP 200: att is the loop variable (0-based)
OkResult(u, a, body, att) ==
    [url |-> u, answer |-> a, correct |-> GetDefault(body, "correct", "False"),
     next_url |-> Get(body, "url"), reason |-> Get(body, "reason"),
     attempt |-> att + 1]

\* a given-up submission that sends the session back to the same page
ExhaustedResultRetryingPage(u, a) ==
    [url |-> u, answer |-> a, correct |-> "False",
     error |-> "Failed to submit after retries", next_url |-> u]

\* _submit_answer, after the loop
ExhaustedResult(u, a) ==
    [url |-> u, answer |-> a, correct |-> "False",
     error |-> "Failed to submit after retries"]

\* --------------------------------------- solve_quiz: the tail of the loop
\* a wrong answer never advances, even when the verdict names a next URL
NextUrlOnlyWhenCorrect(res, cur) ==
    IF Truthy(Get(res, "correct")) THEN Get(res, "next_url") ELSE cur

\* the next URL read from the key 'url' (the page just solved)
NextUrlFromUrlKey(res, cur) ==
    IF Truthy(Get(res, "correct"))
      THEN Get(res, "url")
      ELSE IF Truthy(Get(res, "next_url"))
             THEN Get(res, "next_url")
             ELSE cur

\* current_url after the branch on result.get('correct')
NextCurrentUrl(res, cur) ==
    IF Truthy(Get(res, "correct"))
      THEN Get(res, "next_url")
      ELSE IF Truthy(Get(res, "next_url"))
             THEN Get(res, "next_url")
             ELSE cur

\* the else branch retries the current quiz instead of leaving the loop
BreaksOnlyWhenCorrect(res, cur) ==
    Truthy(Get(res, "correct")) /\ ~Truthy(NextCurrentUrl(res, cur))

\* both break statements left out
BreaksNever(res, cur) == FALSE

\* whether the branch executes break
Breaks(res, cur) ==
    IF Truthy(Get(res, "correct"))
      THEN ~Truthy(NextCurrentUrl(res, cur))
      ELSE ~Truthy(Get(res, "next_url"))

\* a failed step is logged but not kept in the history
AppendedUnlessError(res, r) ==
    IF "answer" \in DOMAIN r THEN Append(res, r) ELSE res

\* only the results of correct steps are kept
AppendedOnlyWhenCorrect(res, r) ==
    IF Truthy(Get(r, "correct")) THEN Append(res, r) ELSE res

\* results.append(result)
Appended(res, r) == Append(res, r)

\* _solve_single_quiz returns r: its locals go out of scope
StepReturn(r) ==
    /\ result' = r
    /\ pc' = "returned"
    /\ html' = NoHtml
    /\ question_info' = NoInfo
    /\ answer' = None
    /\ submit_url' = None
    /\ payload' = NoPayload
    /\ UNCHANGED sessionVars

\* results.append(result) and the branch on result.get('correct'): back to
\* the top of the loop, or break and return the summary
LoopTail ==
    /\ pc = "returned"
    /\ UNCHANGED auxVars
    /\ results' = Appended(results, result)
    /\ current_url' = NextCurrentUrl(result, current_url)
    /\ IF Breaks(result, current_url)
         THEN /\ summary' = SuccessSummary(results', now, start_time)
              /\ pc' = ExitPc(FALSE)
         ELSE /\ summary' = summary
              /\ pc' = "loop"
    /\ url' = None
    /\ result' = NoResult
    /\ step_started' = NoTime
    /\ attempt' = 0
    /\ navs' = 0 /\ llm_calls' = 0 /\ posts' = 0 /\ sleeps' = 0
    /\ last_resp' = NoResponse
    /\ first200' = 0
    /\ last_nav' = None
    /\ sent' = NoPayload
    /\ UNCHANGED <<now, start_time, html, question_info, answer, submit_url,
                   payload, steps_begun, email, secret>>
    /\ UNCHANGED browserVars

\* ----------------------------------------- solve_quiz: the top of the loop
\* while current_url: time check, then the call of _solve_single_quiz
LoopTop ==
    /\ pc = "loop"
    /\ UNCHANGED auxVars
    /\ IF ~Truthy(current_url) \/ TimeExceeded(now, start_time)
         THEN /\ summary' = SuccessSummary(results, now, start_time)
              /\ pc' = ExitPc(FALSE)
              /\ UNCHANGED steps_begun
              /\ UNCHANGED stepVars
         ELSE /\ Len(results) < MaxSteps
              /\ pc' = "nav"
              /\ url' = current_url
              /\ step_started' = now
              /\ steps_begun' = steps_begun + 1
              /\ UNCHANGED <<summary, result, html, question_info, answer,
                             submit_url, attempt, navs, llm_calls, posts,
                             sleeps, last_resp, first200, last_nav,
                             payload, sent>>
    /\ UNCHANGED <<now, start_time, current_url, results, email, secret>>
    /\ UNCHANGED browserVars

\* ---------------------------------------------------------- page content
\* an HTML page, as the list of its matches of the submit-URL pattern
Htmls == {<<>>, <<"s1">>, <<"s2", "s1">>}

\* a page text, as the set of kind keywords its lower-cased form contains
Texts == {{}, {"download"}, {"api", "pdf"}, {"sum", "table"}, {"plot"}, {"pdf"}}

\* _extract_submit_url: the first match, or None
ExtractSubmitUrl(h) == IF Len(h) > 0 THEN h[1] ELSE None

\* the chain with the pdf test moved to its head
QuestionTypePdfFirst(text) ==
    IF "pdf" \in text THEN "pdf_analysis"
    ELSE IF text \cap {"download", "file"} # {} THEN "file_download"
    ELSE IF text \cap {"api", "endpoint"} # {} THEN "api_fetch"
    ELSE IF text \cap {"sum", "calculate", "table"} # {} THEN "data_analysis"
    ELSE IF text \cap {"visualize", "chart", "plot"} # {} THEN "visualization"
    ELSE "general"

\* the kind chosen by the if/elif chain of _extract_question_info
QuestionType(text) ==
    IF text \cap {"download", "file"} # {} THEN "file_download"
    ELSE IF text \cap {"api", "endpoint"} # {} THEN "api_fetch"
    ELSE IF text \cap {"sum", "calculate", "table"} # {} THEN "data_analysis"
    ELSE IF text \cap {"visualize", "chart", "plot"} # {} THEN "visualization"
    ELSE IF "pdf" \in text THEN "pdf_analysis"
    ELSE "general"

\* _extract_question_info
ExtractQuestionInfo(text, h) ==
    [text |-> text, type |-> QuestionType(text), submit_url |-> ExtractSubmitUrl(h)]

\* ------------------------------------------------- BrowserManager.navigate
\* if not self.page: await self.start()
EnsureStarted ==
    /\ start_calls' = IF page THEN start_calls ELSE start_calls + 1
    /\ playwright' = (playwright \/ ~page)
    /\ browser' = (browser \/ ~page)
    /\ page' = TRUE
    /\ open' = IF page THEN open ELSE {"playwright", "browser", "page"}
    /\ UNCHANGED close_calls

\* page.goto succeeds, times out (partial content is returned) or raises
NavOutcomes == {"ok", "timeout", "error"}

\* a navigate that lets the timeout of page.goto through
NavRaisesOnTimeout(o) == o \in {"timeout", "error"}

\* whether navigate raises: PlaywrightTimeoutError is caught and the page
\* content returned, any other exception is raised again
NavRaises(o) == o = "error"

\* a step without its except block: the exception reaches the except block
\* of solve_quiz, which returns the failure summary
StepFailPropagates(e) ==
    /\ summary' = FailureSummary(results, e)
    /\ pc' = ExitPc(TRUE)
    /\ result' = result
    /\ html' = NoHtml
    /\ question_info' = NoInfo
    /\ answer' = None
    /\ submit_url' = None
    /\ payload' = NoPayload
    /\ UNCHANGED <<start_time, current_url, results, steps_begun, email, secret>>

\* the except block of _solve_single_quiz: the step ends with an error result
StepFail(e) == StepReturn(ErrorResult(url, e))

\* html_content = await self.browser.navigate(url)
Navigate ==
    /\ pc = "nav"
    /\ UNCHANGED auxVars
    /\ navs' = navs + 1
    /\ \E o \in NavOutcomes, lat \in Latencies, h \in Htmls :
         /\ now' = now + lat
         /\ last_nav' = o
         /\ IF NavRaises(o)
              THEN StepFail("navigate")
              ELSE /\ html' = h
                   /\ pc' = "text"
                   /\ UNCHANGED <<result, question_info, answer, submit_url,
                                  payload>>
                   /\ UNCHANGED sessionVars
    /\ UNCHANGED <<url, step_started, attempt, llm_calls, posts, sleeps,
                   last_resp, first200, sent>>
    /\ EnsureStarted

\* an extract_text that reads the text of the page already loaded
TextReadsLoadedPage == FALSE

\* whether extract_text loads the page itself: await self.navigate(url)
TextNavigates == TRUE

\* text_content = await self.browser.extract_text(url): a second navigate,
\* then page.evaluate; followed by _extract_question_info
ExtractText ==
    /\ pc = "text"
    /\ UNCHANGED auxVars
    /\ navs' = IF TextNavigates THEN navs + 1 ELSE navs
    /\ \E o \in (IF TextNavigates THEN NavOutcomes ELSE {"ok"}),
          lat \in Latencies, evalOk \in BOOLEAN, text \in Texts :
         /\ now' = now + lat
         /\ last_nav' = IF ~NavRaises(o) /\ ~evalOk THEN "evaluate" ELSE o
         /\ IF NavRaises(o) \/ ~evalOk
              THEN StepFail("extract_text")
              ELSE /\ question_info' = ExtractQuestionInfo(text, html)
                   /\ pc' = "solve"
                   /\ UNCHANGED <<result, html, answer, submit_url, payload>>
                   /\ UNCHANGED sessionVars
    /\ UNCHANGED <<url, step_started, attempt, llm_calls, posts, sleeps,
                   last_resp, first200, sent>>
    /\ EnsureStarted

\* ----------------------------------------------------- _solve_single_quiz
\* the submit URL posted as the quiz URL
BuildPayloadSubmitUrl(e, sec, quiz_url, su, a) ==
    [email |-> e, secret |-> sec, url |-> su, answer |-> a]

\* the dictionary payload built at the head of _submit_answer(su, quiz_url, a)
BuildPayload(e, sec, quiz_url, su, a) ==
    [email |-> e, secret |-> sec, url |-> quiz_url, answer |-> a]

\* the no-submit case reported like a failed submission
NoSubmitResultAsFailure(u, a) ==
    [url |-> u, answer |-> a, correct |-> "False", error |-> "No submit URL found"]

\* what the step does once the answer is known and no submit URL is found
OnNoSubmitUrl(u, a) == NoSubmitResult(u, a)

\* the code after answer = await self._solve_question(...): resolve the
\* submit URL, and either enter _submit_answer or return the no-submit result
AfterAnswer(a) ==
    LET su == IF Truthy(question_info.submit_url)
                THEN question_info.submit_url
                ELSE ExtractSubmitUrl(html)
    IN  IF Truthy(su)
          THEN /\ answer' = a
               /\ submit_url' = su
               /\ payload' = BuildPayload(email, secret, url, su, a)
               /\ pc' = "post"
               /\ html' = NoHtml
               /\ question_info' = NoInfo
               /\ result' = result
               /\ UNCHANGED sessionVars
          ELSE StepReturn(OnNoSubmitUrl(url, a))

\* --------------------------------------------------------- _solve_question
\* what the handler of a kind does inside the try block: it returns an
\* answer of its own, raises, or hands over to _solve_general_question
KindOutcomes(type) ==
    IF type \in {"file_download", "api_fetch", "pdf_analysis", "data_analysis"}
      THEN {"answer", "raise", "general"}
      ELSE {"general"}

\* the try block put around the data handlers only
CatchesDataKindsOnly(type) ==
    type \in {"file_download", "api_fetch", "pdf_analysis", "data_analysis"}

\* whether an exception of the handler of this kind is caught by the except
\* block of _solve_question: the try block holds every branch
CatchesKindFailure(type) == TRUE

\* the try block of _solve_question
SolveQuestion ==
    /\ pc = "solve"
    /\ UNCHANGED auxVars
    /\ \E o \in KindOutcomes(question_info.type), llmOk \in BOOLEAN,
          viaLLM \in BOOLEAN, lat \in Latencies, a \in Answers :
         /\ now' = now + lat
         /\ llm_calls' = IF o = "general" \/ (o = "answer" /\ viaLLM)
                           THEN llm_calls + 1 ELSE llm_calls
         /\ IF o = "raise" \/ (o = "general" /\ ~llmOk)
              THEN IF CatchesKindFailure(question_info.type)
                     THEN /\ pc' = "fallback"
                          /\ UNCHANGED <<result, html, question_info, answer,
                                         submit_url, payload>>
                          /\ UNCHANGED sessionVars
                     ELSE StepFail(IF o = "raise" THEN "kind" ELSE "llm")
              ELSE AfterAnswer(a)
    /\ last_nav' = None
    /\ UNCHANGED <<url, step_started, attempt, navs, posts, sleeps,
                   last_resp, first200, sent>>
    /\ UNCHANGED browserVars

\* the except block of _solve_question: _solve_general_question once more
SolveFallback ==
    /\ pc = "fallback"
    /\ UNCHANGED auxVars
    /\ llm_calls' = llm_calls + 1
    /\ \E llmOk \in BOOLEAN, lat \in Latencies, a \in Answers :
         /\ now' = now + lat
         /\ IF llmOk
              THEN AfterAnswer(a)
              ELSE StepFail("llm")
    /\ UNCHANGED <<url, step_started, attempt, navs, posts, sleeps,
                   last_resp, first200, last_nav, sent>>
    /\ UNCHANGED browserVars

\* ---------------------------------------------------------- _submit_answer
\* JSON objects the scoring endpoint can answer with
Bodies ==
    {[correct |-> c, url |-> u] : c \in {"True", "False"}, u \in URLs \cup {None}}
      \cup {[reason |-> "r"]}

\* a body that response.json() cannot turn into a dictionary
BadBody == [unparseable |-> TRUE]

\* what one POST can end with; status 0 stands for a transport failure
Responses ==
    {[status |-> 200, body |-> b, sent |-> TRUE] : b \in Bodies \cup {BadBody}}
      \cup {[status |-> s, body |-> BadBody, sent |-> TRUE] : s \in {0, 500}}

\* every HTTP 200 taken as a verdict, whatever its body
AcceptedOnStatus(r) == r.status = 200

\* the attempt returns a result: status 200 and a body that parses
Accepted(r) == r.status = 200 /\ r.body # BadBody

\* a back-off after every failed attempt, the last one included
SleepsAfterEvery(att) == att < max_retries

\* whether a failed attempt is followed by the back-off sleep
SleepsAfter(att) == att < max_retries - 1

\* a retry loop that gives up once the session's time is over
RetriesOnlyInTime(t, st) == ~TimeExceeded(t, st)

\* whether the for loop goes on at time t of a session started at st: the
\* loop reads no clock
RetriesWhileInTime(t, st) == TRUE

\* one iteration of the for loop up to its await of client.post
Post ==
    /\ pc = "post"
    /\ UNCHANGED auxVars
    /\ posts' = posts + 1
    /\ \E r \in Responses, lat \in Latencies :
         /\ now' = now + lat
         /\ last_resp' = r
         /\ sent' = payload
         /\ first200' = IF first200 = 0 /\ r.status = 200 THEN attempt + 1 ELSE first200
         /\ IF Accepted(r)
              THEN StepReturn(OkResult(url, answer, r.body, attempt))
              ELSE IF SleepsAfter(attempt) /\ RetriesWhileInTime(now', start_time)
                     THEN /\ pc' = "sleep"
                          /\ UNCHANGED <<result, html, question_info, answer,
                                         submit_url, payload>>
                          /\ UNCHANGED sessionVars
                     ELSE StepReturn(ExhaustedResult(url, answer))
    /\ UNCHANGED <<url, step_started, attempt, navs, llm_calls, sleeps,
                   last_nav>>
    /\ UNCHANGED browserVars

\* await asyncio.sleep(1), then the next iteration of the for loop
Sleep ==
    /\ pc = "sleep"
    /\ UNCHANGED auxVars
    /\ now' = now + BackoffSeconds
    /\ sleeps' = sleeps + 1
    /\ attempt' = attempt + 1
    /\ pc' = "post"
    /\ UNCHANGED <<url, result, step_started, html, question_info, answer,
                   submit_url, navs, llm_calls, posts, last_resp, first200,
                   last_nav,
                   payload, sent>>
    /\ UNCHANGED sessionVars
    /\ UNCHANGED browserVars

\* ------------------------------------------------------------ the session
Next ==
    \/ Enter
    \/ BrowserStart
    \/ LoopTop
    \/ Navigate
    \/ ExtractText
    \/ SolveQuestion
    \/ SolveFallback
    \/ Post
    \/ Sleep
    \/ LoopTail
    \/ Close

Spec == Init /\ [][Next]_vars

\* ------------------------------------------- the session as time passes
\* the first page load of a step takes time: page.goto, then
\* asyncio.sleep(2); here the load is a slow call
StepTakesTime == now' >= now + SlowCall

TimedNavigate == Navigate /\ StepTakesTime

LiveNext ==
    \/ Enter
    \/ BrowserStart
    \/ LoopTop
    \/ TimedNavigate
    \/ ExtractText
    \/ SolveQuestion
    \/ SolveFallback
    \/ Post
    \/ Sleep
    \/ LoopTail
    \/ Close

\* every awaited call returns and the coroutine is resumed
LiveSpec == Init /\ [][LiveNext]_vars /\ WF_vars(LiveNext)

\* ======================================================= the pure helpers
\* One call of a helper that reads nothing but its arguments: fn holds the
\* arguments, and after the call the value returned.

\* the substrings tested by the if/elif chain of _extract_question_info
Keywords == {"download", "file", "api", "endpoint", "sum", "calculate", "table",
             "visualize", "chart", "plot", "pdf"}

\* calls of _extract_question_info(text_content, html_content)
ClassifyCalls ==
    {[pc |-> "call", op |-> "classify", text |-> t, html |-> h] :
        t \in SUBSET Keywords, h \in Htmls}

\* ------------------------------------------------- _solve_file_question
\* a URL of question_info['data_urls']: has is the set of file extensions
\* that occur somewhere in its lower-cased form, tail the extension it ends
\* with as written (None when it ends with none of them), ext the extension
\* its path ends with (None when the path ends with none of them)
FileUrls ==
    { [name |-> "https://x/data.csv", has |-> {".csv"}, tail |-> ".csv",
       ext |-> ".csv"],
      [name |-> "https://x/data.csv?v=1", has |-> {".csv"}, tail |-> None,
       ext |-> ".csv"],
      [name |-> "https://x/data.csv/view", has |-> {".csv"}, tail |-> None,
       ext |-> None],
      [name |-> "https://x/report.pdf", has |-> {".pdf"}, tail |-> ".pdf",
       ext |-> ".pdf"],
      [name |-> "https://x/quiz", has |-> {}, tail |-> None, ext |-> None] }

\* the first element of re.findall(url_pattern, text, re.IGNORECASE): the
\* pattern has one group, so the element is the text of the group, the
\* extension without its point; None when the text has no match
Scans == {None, "csv"}

UrlLists ==
    {<<>>} \cup {<<u>> : u \in FileUrls}
           \cup {<<u, v>> : u \in FileUrls, v \in FileUrls}

\* the operation words of _analyze_dataframe_question that occur in the
\* lower-cased question text
Operations == {"sum", "mean", "count", "max"}

\* the double-quoted strings of the question text, in order of appearance
QuotedLists ==
    {<<>>, <<"amount">>, <<"qty">>, <<"total">>, <<"report", "amount">>}

\* the DataFrame read from the file: numeric columns of equal length, each
\* with an integral mean
Tables ==
    { [amount |-> <<1, 3>>, qty |-> <<5, 7>>],
      [amount |-> <<2, 2, 5>>] }

\* calls of _solve_file_question(question_info), with what the world does:
\* whether the download succeeds and whether the Reasoner answers
FileCalls ==
    {[pc |-> "call", op |-> "file", urls |-> us, scan |-> sc, reachable |-> r,
      ops |-> o, quoted |-> q, table |-> t, llmOk |-> l] :
        us \in UrlLists, sc \in Scans, r \in BOOLEAN, o \in SUBSET Operations,
        q \in QuotedLists, t \in Tables, l \in BOOLEAN}

RECURSIVE SeqSum(_)
SeqSum(q) == IF q = <<>> THEN 0 ELSE Head(q) + SeqSum(Tail(q))

RECURSIVE SeqMax(_)
SeqMax(q) ==
    IF Len(q) = 1 THEN Head(q)
    ELSE IF Head(q) >= SeqMax(Tail(q)) THEN Head(q) ELSE SeqMax(Tail(q))

SeqMean(q) == SeqSum(q) \div Len(q)

\* the sums, and the means, of the columns cs of the table t, added up
RECURSIVE ColumnSums(_, _)
ColumnSums(t, cs) ==
    IF cs = {} THEN 0
    ELSE LET c == CHOOSE x \in cs : TRUE
         IN  SeqSum(t[c]) + ColumnSums(t, cs \ {c})

RECURSIVE ColumnMeans(_, _)
ColumnMeans(t, cs) ==
    IF cs = {} THEN 0
    ELSE LET c == CHOOSE x \in cs : TRUE
         IN  SeqMean(t[c]) + ColumnMeans(t, cs \ {c})

\* df.sum().sum() and df.mean().mean()
TableSum(t) == ColumnSums(t, DOMAIN t)
TableMean(t) == ColumnMeans(t, DOMAIN t) \div Cardinality(DOMAIN t)

\* what a handler hands back: an answer computed without the Reasoner, the
\* coerced reply of the Reasoner, or an exception
Computed(ty, v) == [answer |-> [type |-> ty, value |-> v], llm_calls |-> 0,
                    raised |-> FALSE]
NoAnswer == [type |-> None]
AskReasoner(llmOk) ==
    IF llmOk THEN [answer |-> [type |-> "llm"], llm_calls |-> 1, raised |-> FALSE]
    ELSE [answer |-> NoAnswer, llm_calls |-> 1, raised |-> TRUE]

\* re.search(r'"([^"]+)"', question_text): the first quoted string, if it
\* is a column of the table
QuotedColumn(t, quoted) ==
    IF quoted # <<>> /\ quoted[1] \in DOMAIN t THEN quoted[1] ELSE None

\* the chain with the test for mean put before the test for sum
AnalyzeDataframeMeanFirst(t, ops, quoted, llmOk) ==
    LET c == QuotedColumn(t, quoted)
    IN  IF "mean" \in ops
          THEN Computed("float", IF c # None THEN SeqMean(t[c]) ELSE TableMean(t))
        ELSE IF "sum" \in ops
          THEN Computed("float", IF c # None THEN SeqSum(t[c]) ELSE TableSum(t))
        ELSE AskReasoner(llmOk)

\* _analyze_dataframe_question(df, question_text)
AnalyzeDataframe(t, ops, quoted, llmOk) ==
    LET c == QuotedColumn(t, quoted)
    IN  IF "sum" \in ops
          THEN Computed("float", IF c # None THEN SeqSum(t[c]) ELSE TableSum(t))
        ELSE IF "mean" \in ops
          THEN Computed("float", IF c # None THEN SeqMean(t[c]) ELSE TableMean(t))
        ELSE IF "count" \in ops
          THEN Computed("int", Len(t[CHOOSE x \in DOMAIN t : TRUE]))
        ELSE IF "max" \in ops /\ c # None
          THEN Computed("number", SeqMax(t[c]))
        ELSE AskReasoner(llmOk)

\* file_url = None
NoUrl == [name |-> None, has |-> {}, tail |-> None, ext |-> None]

\* the first URL that has one of the extensions somewhere in it
RECURSIVE FirstFileUrl(_)
FirstFileUrl(us) ==
    IF us = <<>> THEN NoUrl
    ELSE IF Head(us).has # {} THEN Head(us)
    ELSE FirstFileUrl(Tail(us))

\* _solve_file_question: the value returned, the calls of the Reasoner and
\* of download_file made, the URL handed to download_file, and whether an
\* exception leaves the method.  After the second scan file_url is the
\* text of the group, which download_file refuses as a URL
SolveFile(q) ==
    LET f == FirstFileUrl(q.urls)
        rescanned == f = NoUrl /\ q.scan # None
        r == IF rescanned
               THEN [answer |-> NoAnswer, llm_calls |-> 0, raised |-> TRUE]
             ELSE IF f = NoUrl THEN AskReasoner(q.llmOk)
             ELSE IF ~q.reachable
               THEN [answer |-> NoAnswer, llm_calls |-> 0, raised |-> TRUE]
             ELSE IF f.tail = ".pdf" THEN AskReasoner(q.llmOk)
             ELSE IF f.tail = ".csv"
               THEN AnalyzeDataframe(q.table, q.ops, q.quoted, q.llmOk)
             ELSE IF f.tail = ".json" THEN AskReasoner(q.llmOk)
             ELSE AskReasoner(q.llmOk)
    IN  [answer |-> r.answer, llm_calls |-> r.llm_calls, raised |-> r.raised,
         file_url |-> IF rescanned THEN q.scan ELSE f.name,
         downloads |-> IF f = NoUrl /\ ~rescanned THEN 0 ELSE 1]

\* ------------------------------------------------------- _extract_answer
\* the characters of a reply of the Reasoner: the minus sign, two digits, the
\* point, a letter and a blank
Chars == {"-", "0", "7", ".", "x", " "}
Digits == {"0", "7"}
DigitValue(c) == IF c = "7" THEN 7 ELSE 0

\* longest reply considered
MaxReplyLen == 4

Replies == UNION {[1..n -> Chars] : n \in 0..MaxReplyLen}

\* calls of _extract_answer(llm_response, question_text)
CoerceCalls == {[pc |-> "call", op |-> "coerce", resp |-> r] : r \in Replies}

\* \d*: the number of digits in a row from position i on
RECURSIVE DigitRun(_, _)
DigitRun(s, i) ==
    IF i <= Len(s) /\ s[i] \in Digits THEN 1 + DigitRun(s, i + 1) ELSE 0

\* the match of -?\d+\.?\d* that starts at position i, <<>> if there is none
MatchAt(s, i) ==
    LET j == IF s[i] = "-" THEN i + 1 ELSE i
        d == DigitRun(s, j)
        dot == j + d <= Len(s) /\ s[j + d] = "."
        e == IF dot THEN 1 + DigitRun(s, j + d + 1) ELSE 0
    IN  IF d = 0 THEN <<>> ELSE SubSeq(s, i, j + d + e - 1)

\* numbers[0] of re.findall(number_pattern, llm_response), <<>> if empty
RECURSIVE FirstNumber(_, _)
FirstNumber(s, i) ==
    IF i > Len(s) THEN <<>>
    ELSE IF MatchAt(s, i) # <<>> THEN MatchAt(s, i)
    ELSE FirstNumber(s, i + 1)

\* the value of a row of digits
RECURSIVE IntOf(_)
IntOf(q) ==
    IF q = <<>> THEN 0
    ELSE IntOf(SubSeq(q, 1, Len(q) - 1)) * 10 + DigitValue(q[Len(q)])

\* a fraction without the zeros at its end, which do not change the value
RECURSIVE TrimZeros(_)
TrimZeros(q) ==
    IF q # <<>> /\ q[Len(q)] = "0" THEN TrimZeros(SubSeq(q, 1, Len(q) - 1)) ELSE q

\* int(num_str)
IntAnswer(num) ==
    [type |-> "int",
     value |-> IF num[1] = "-" THEN 0 - IntOf(Tail(num)) ELSE IntOf(num)]

\* float(num_str), for a token with a point in it
FloatAnswer(num) ==
    LET neg == num[1] = "-"
        body == IF neg THEN Tail(num) ELSE num
        p == CHOOSE k \in 1..Len(body) : body[k] = "."
    IN  [type |-> "float", neg |-> neg, whole |-> IntOf(SubSeq(body, 1, p - 1)),
         frac |-> TrimZeros(SubSeq(body, p + 1, Len(body)))]

\* llm_response.strip()
RECURSIVE Strip(_)
Strip(s) ==
    IF s = <<>> THEN s
    ELSE IF Head(s) = " " THEN Strip(Tail(s))
    ELSE IF s[Len(s)] = " " THEN Strip(SubSeq(s, 1, Len(s) - 1))
    ELSE s

\* a token is a float only when digits follow its point
HasFraction(num) == \E k \in 1..Len(num) - 1 : num[k] = "."

\* if '.' in num_str
HasPoint(num) == \E k \in 1..Len(num) : num[k] = "."

\* _extract_answer(llm_response, question_text)
ExtractAnswer(resp) ==
    LET num == FirstNumber(resp, 1)
    IN  IF num # <<>>
          THEN IF HasPoint(num) THEN FloatAnswer(num) ELSE IntAnswer(num)
          ELSE [type |-> "str", text |-> Strip(resp)]

\* --------------------------------- _extract_question_info, called twice
\* what the method could read besides its arguments: the fields of self
SolverStates ==
    {[email |-> e, start_time |-> t, page |-> p] :
        e \in Emails \cup {"other@example.com"}, t \in {NoTime, 0}, p \in BOOLEAN}

\* a page text as the list of its tokens: words tested by the classifier
\* and URLs
TextTokens == {"download", "pdf", "sum", "https://x/data.csv", "https://x/quiz"}
TokenLists ==
    {<<>>} \cup {<<a>> : a \in TextTokens}
           \cup {<<a, b>> : a \in TextTokens, b \in TextTokens}

\* the keywords that occur in the text
KeywordsOf(toks) == {toks[i] : i \in DOMAIN toks} \cap Keywords

\* re.findall(url_pattern, text_content): the URLs, in order of appearance
IsUrlToken(t) == t \notin Keywords
DataUrls(toks) == SelectSeq(toks, IsUrlToken)

\* a classification that depends on whether the session has begun
InfoReadingSelf(self, toks, h) ==
    [type |-> IF self.start_time = NoTime THEN "general"
              ELSE QuestionType(KeywordsOf(toks)),
     submit_url |-> ExtractSubmitUrl(h), data_urls |-> DataUrls(toks)]

\* _extract_question_info(self, text_content, html_content): kind, submit
\* URL and data URLs; no field of self is read
InfoOn(self, toks, h) ==
    [type |-> ExtractQuestionInfo(KeywordsOf(toks), h).type,
     submit_url |-> ExtractQuestionInfo(KeywordsOf(toks), h).submit_url,
     data_urls |-> DataUrls(toks)]

\* two calls on the same (text, html), the solver being in state self
ReclassifyCalls ==
    {[pc |-> "call", op |-> "reclassify", toks |-> t, html |-> h, self |-> s,
      out |-> NoInfo, again |-> NoInfo] :
        t \in TokenLists, h \in Htmls, s \in SolverStates}

FnCalls == ClassifyCalls \cup FileCalls \cup CoerceCalls \cup ReclassifyCalls

FnInit ==
    /\ Constructed
    /\ api = Idle
    /\ multi = Idle
    /\ fn \in FnCalls

\* question_info = self._extract_question_info(text_content, html_content)
Classify ==
    /\ fn.pc = "call"
    /\ fn.op = "classify"
    /\ fn' = [pc |-> "done", op |-> fn.op, text |-> fn.text, html |-> fn.html,
              out |-> ExtractQuestionInfo(fn.text, fn.html)]
    /\ UNCHANGED <<solverVars, api, multi>>

\* return await self._solve_file_question(question_info)
SolveFileQuestion ==
    /\ fn.pc = "call"
    /\ fn.op = "file"
    /\ fn' = [pc |-> "done", op |-> fn.op, urls |-> fn.urls, scan |-> fn.scan,
              reachable |-> fn.reachable, ops |-> fn.ops, quoted |-> fn.quoted,
              table |-> fn.table, llmOk |-> fn.llmOk, out |-> SolveFile(fn)]
    /\ UNCHANGED <<solverVars, api, multi>>

\* return self._extract_answer(answer, text)
Coerce ==
    /\ fn.pc = "call"
    /\ fn.op = "coerce"
    /\ fn' = [pc |-> "done", op |-> fn.op, resp |-> fn.resp,
              out |-> ExtractAnswer(fn.resp)]
    /\ UNCHANGED <<solverVars, api, multi>>

\* the first call of _extract_question_info
ClassifyFirst ==
    /\ fn.pc = "call"
    /\ fn.op = "reclassify"
    /\ fn' = [fn EXCEPT !.pc = "once", !.out = InfoOn(fn.self, fn.toks, fn.html)]
    /\ UNCHANGED <<solverVars, api, multi>>

\* the session goes on between the two calls: the fields of self change
SessionMoves ==
    /\ fn.pc = "once"
    /\ \E s \in SolverStates \ {fn.self} : fn' = [fn EXCEPT !.self = s]
    /\ UNCHANGED <<solverVars, api, multi>>

\* the second call, on the same text and HTML
ClassifyAgain ==
    /\ fn.pc = "once"
    /\ fn' = [fn EXCEPT !.pc = "done", !.again = InfoOn(fn.self, fn.toks, fn.html)]
    /\ UNCHANGED <<solverVars, api, multi>>

FnNext ==
    \/ Classify
    \/ SolveFileQuestion
    \/ Coerce
    \/ ClassifyFirst
    \/ SessionMoves
    \/ ClassifyAgain

FnSpec == FnInit /\ [][FnNext]_vars

\* ============================================= two sessions, one process
\* app.py makes one QuizSolver per request and runs its solve_quiz on the
\* one event loop, so the runs of two requests interleave at their awaits.
\* multi holds the objects of the process: the solvers, the BrowserManager
\* objects they refer to, the wall clock, and the session that ran last.
Sessions == {"a", "b"}

\* steps one session may begin while the other runs beside it
MaxStepsEach == 1

\* one BrowserManager of the process handed to every solver
SharedBrowser(s) == "a"

\* self.browser = BrowserManager(): an object made for this solver
BrowserOf(s) == s

\* QuizSolver.__init__ and BrowserManager.__init__
NewSolver(s) ==
    [pc |-> "entry", start_time |-> NoTime, current_url |-> None, url |-> None,
     results |-> <<>>, summary |-> NoSummary, browser |-> BrowserOf(s)]

NewBrowser == [page |-> FALSE, open |-> FALSE]

TwoInit ==
    /\ Constructed
    /\ api = Idle
    /\ fn = Idle
    /\ multi = [pc |-> "run", now |-> 0, actor |-> None,
                solver |-> [s \in Sessions |-> NewSolver(s)],
                browsers |-> [b \in Sessions |-> NewBrowser]]

\* the run of session s goes on to its next await: its solver becomes me,
\* the BrowserManager it refers to becomes br, the clock reads t
Ran(s, me, br, t) ==
    /\ multi' = [multi EXCEPT !.solver[s] = me,
                              !.browsers[multi.solver[s].browser] = br,
                              !.now = t,
                              !.actor = s]
    /\ UNCHANGED <<solverVars, api, fn>>

\* results.append(result) and the branch on result.get('correct')
TailOf(me, r, t) ==
    LET res == Appended(me.results, r)
    IN  IF Breaks(r, me.current_url)
          THEN [me EXCEPT !.results = res,
                          !.current_url = NextCurrentUrl(r, me.current_url),
                          !.summary = SuccessSummary(res, t, me.start_time),
                          !.pc = ExitPc(FALSE)]
          ELSE [me EXCEPT !.results = res,
                          !.current_url = NextCurrentUrl(r, me.current_url),
                          !.pc = "loop"]

\* solve_quiz up to its first await
EnterOf(s) ==
    LET me == multi.solver[s]
    IN  /\ multi.pc = "run"
        /\ me.pc = "entry"
        /\ \E u \in InitialUrls :
             Ran(s, [me EXCEPT !.pc = "start", !.current_url = u,
                               !.start_time = multi.now],
                 multi.browsers[me.browser], multi.now)

\* await self.browser.start(), and the except block when it raises
StartOf(s) ==
    LET me == multi.solver[s]
    IN  /\ multi.pc = "run"
        /\ me.pc = "start"
        /\ \E ok \in BOOLEAN :
             IF ok
               THEN Ran(s, [me EXCEPT !.pc = "loop"],
                        [page |-> TRUE, open |-> TRUE], multi.now)
               ELSE Ran(s, [me EXCEPT !.pc = ExitPc(TRUE),
                                      !.summary = FailureSummary(me.results, "start")],
                        multi.browsers[me.browser], multi.now)

\* while current_url: time check, then the call of _solve_single_quiz
LoopTopOf(s) ==
    LET me == multi.solver[s]
    IN  /\ multi.pc = "run"
        /\ me.pc = "loop"
        /\ IF ~Truthy(me.current_url) \/ TimeExceeded(multi.now, me.start_time)
             THEN Ran(s, [me EXCEPT !.pc = ExitPc(FALSE),
                                    !.summary = SuccessSummary(me.results, multi.now,
                                                               me.start_time)],
                      multi.browsers[me.browser], multi.now)
             ELSE /\ Len(me.results) < MaxStepsEach
                  /\ Ran(s, [me EXCEPT !.pc = "render", !.url = me.current_url],
                         multi.browsers[me.browser], multi.now)

\* navigate, extract_text and _solve_question of one step: the page of the
\* solver's BrowserManager is started when unset, and must not be closed
RenderOf(s) ==
    LET me == multi.solver[s]
        br == multi.browsers[me.browser]
        started == IF br.page THEN br ELSE [page |-> TRUE, open |-> TRUE]
    IN  /\ multi.pc = "run"
        /\ me.pc = "render"
        /\ \E ok \in BOOLEAN, lat \in Latencies :
             IF ok /\ started.open
               THEN Ran(s, [me EXCEPT !.pc = "submit"], started, multi.now + lat)
               ELSE Ran(s, TailOf(me, ErrorResult(me.url, "navigate"), multi.now + lat),
                        started, multi.now + lat)

\* the results a step can end with once it has its answer
VerdictsOf(u) ==
    {NoSubmitResult(u, a) : a \in Answers}
      \cup {ExhaustedResult(u, a) : a \in Answers}
      \cup {OkResult(u, a, b, 0) : a \in Answers, b \in Bodies}

\* the rest of the step: the submit URL and _submit_answer
SubmitOf(s) ==
    LET me == multi.solver[s]
    IN  /\ multi.pc = "run"
        /\ me.pc = "submit"
        /\ \E r \in VerdictsOf(me.url) :
             Ran(s, TailOf(me, r, multi.now), multi.browsers[me.browser], multi.now)

\* the finally block of solve_quiz: await self.browser.close()
CloseOf(s) ==
    LET me == multi.solver[s]
        br == multi.browsers[me.browser]
    IN  /\ multi.pc = "run"
        /\ me.pc = "close"
        /\ Ran(s, [me EXCEPT !.pc = "done"], [br EXCEPT !.open = FALSE], multi.now)

TwoNext ==
    \/ \E s \in Sessions : EnterOf(s)
    \/ \E s \in Sessions : StartOf(s)
    \/ \E s \in Sessions : LoopTopOf(s)
    \/ \E s \in Sessions : RenderOf(s)
    \/ \E s \in Sessions : SubmitOf(s)
    \/ \E s \in Sessions : CloseOf(s)

TwoSpec == TwoInit /\ [][TwoNext]_vars

\* ======================================================== the front door
\* One request to /solve or /solve-sync, already parsed into a QuizRequest.
\* api holds the request, Config.SECRET of the deployment, the response
\* status (NoStatus while there is none), the QuizSolver objects made and the
\* solve_quiz calls begun for it.
ConfigSecrets == {"s3cret", "t0ken"}
RequestSecrets == ConfigSecrets \cup {""}
RequestEmails == {"owner@example.com", "other@example.com"}
Endpoints == {"/solve", "/solve-sync"}
NoStatus == 0

\* the status the framework answers with when the body cannot be made into
\* the QuizRequest the handler is declared to take
UnprocessableEntity == 422

\* bodies that are a JSON object with the three fields
Requests ==
    {[pc |-> "received", body |-> "object", endpoint |-> e, email |-> m,
      secret |-> sec, url |-> u,
      config_secret |-> c, status |-> NoStatus, success |-> None,
      solvers |-> 0, sessions |-> 0, task |-> None] :
        e \in Endpoints, m \in RequestEmails, sec \in RequestSecrets,
        u \in InitialUrls, c \in ConfigSecrets}

\* bodies that are not JSON, or JSON without one of the fields
MalformedRequests ==
    {[pc |-> "received", body |-> b, endpoint |-> e, email |-> None,
      secret |-> None, url |-> None,
      config_secret |-> c, status |-> NoStatus, success |-> None,
      solvers |-> 0, sessions |-> 0, task |-> None] :
        b \in {"not_json", "field_missing"}, e \in Endpoints, c \in ConfigSecrets}

ApiInit ==
    /\ Constructed
    /\ multi = Idle
    /\ fn = Idle
    /\ api \in Requests \cup MalformedRequests

\* request: QuizRequest: the body is parsed and validated before the
\* handler is called; a body that fails gets the framework's answer, and
\* the handler, with its except json.JSONDecodeError (HTTP 400), does not run
RejectBody ==
    /\ api.pc = "received"
    /\ api.body # "object"
    /\ api' = [api EXCEPT !.pc = "responded", !.status = UnprocessableEntity]
    /\ UNCHANGED <<solverVars, multi, fn>>

\* an empty secret let through
SecretOkWhenGiven(req) == req.secret = "" \/ req.secret = req.config_secret

\* the test request.secret != Config.SECRET, negated
SecretOk(req) == req.secret = req.config_secret

\* raise HTTPException(status_code=403, detail="Invalid secret")
Rejected(req) == [req EXCEPT !.pc = "responded", !.status = 403]

\* the handler's except Exception: HTTP 500
Failed(req) == [req EXCEPT !.pc = "responded", !.status = 500]

\* POST /solve: the check, the solver, the background task, the response
Solve ==
    /\ api.pc = "received"
    /\ api.body = "object"
    /\ api.endpoint = "/solve"
    /\ \E built \in BOOLEAN :
         api' = IF ~SecretOk(api) THEN Rejected(api)
                ELSE IF ~built THEN Failed(api)
                ELSE [api EXCEPT !.pc = "responded", !.status = 200,
                                 !.success = "True",
                                 !.solvers = @ + 1, !.sessions = @ + 1,
                                 !.task = "scheduled"]
    /\ UNCHANGED <<solverVars, multi, fn>>

\* the task made by asyncio.create_task runs to its end after the response
BackgroundTask ==
    /\ api.pc = "responded"
    /\ api.task = "scheduled"
    /\ api' = [api EXCEPT !.task = "finished"]
    /\ UNCHANGED <<solverVars, multi, fn>>

\* POST /solve-sync up to result = await solver.solve_quiz(request.url)
SolveSync ==
    /\ api.pc = "received"
    /\ api.body = "object"
    /\ api.endpoint = "/solve-sync"
    /\ \E built \in BOOLEAN :
         api' = IF ~SecretOk(api) THEN Rejected(api)
                ELSE IF ~built THEN Failed(api)
                ELSE [api EXCEPT !.pc = "awaiting",
                                 !.solvers = @ + 1, !.sessions = @ + 1]
    /\ UNCHANGED <<solverVars, multi, fn>>

\* POST /solve-sync: the response made from the summary
SolveSyncReturn ==
    /\ api.pc = "awaiting"
    /\ \E ok \in {"True", "False"} :
         api' = [api EXCEPT !.pc = "responded", !.status = 200, !.success = ok]
    /\ UNCHANGED <<solverVars, multi, fn>>

ApiNext ==
    \/ RejectBody
    \/ Solve
    \/ BackgroundTask
    \/ SolveSync
    \/ SolveSyncReturn

ApiSpec == ApiInit /\ [][ApiNext]_vars

\* ================================================================ claims
\* the pages handed to _solve_single_quiz so far, in order
StepPcs == {"nav", "text", "solve", "fallback", "post", "sleep", "returned"}
Visited ==
    [i \in 1..Len(results) |-> results[i].url]
      \o (IF pc \in StepPcs THEN <<url>> ELSE <<>>)

\* the latest entry of a history
Last(s) == s[Len(s)]

\* a verdict that names no next page
NoNext(r) == ~Truthy(Get(r, "next_url"))

\* ---- C1: no quiz step is begun once now - start_time > max_time: at the
\* call of _solve_single_quiz the elapsed time is within the budget
C1_NoStepAfterDeadline ==
    step_started # NoTime =>
        step_started - start_time <= MAX_QUIZ_TIME_SECONDS

\* a second step begun after time has passed
C1_Witness ==
    /\ pc = "nav"
    /\ Len(results) = 1
    /\ step_started > start_time

\* ---- C2: a failure that leaves the step (the except block of
\* _solve_single_quiz) makes the session return success = false with the
\* history so far
C2_FailedStepFailsSession ==
    (/\ pc = "done"
     /\ results # <<>>
     /\ "answer" \notin DOMAIN Last(results)
     /\ "error" \in DOMAIN Last(results))
      => (summary.success = "False" /\ summary.results = results)

\* ---- C3 as stated: the first HTTP 200 of a submission, on attempt k, ends
\* the submission with attempt = k after exactly k POSTs
C3_First200Returns ==
    first200 > 0 =>
        /\ pc = "returned"
        /\ "attempt" \in DOMAIN result
        /\ result.attempt = first200
        /\ posts = first200

\* ---- C3 amended: an HTTP 200 whose body parses as a JSON object ends the
\* submission at once: the result carries attempt = number of POSTs made,
\* correct and next_url come from that body, and no POST follows
C3_AcceptedReturns ==
    (last_resp.status = 200 /\ last_resp.body # BadBody) =>
        /\ pc = "returned"
        /\ "attempt" \in DOMAIN result
        /\ result.attempt = posts
        /\ posts = attempt + 1
        /\ posts <= max_retries
        /\ result.correct = GetDefault(last_resp.body, "correct", "False")
        /\ result.next_url = Get(last_resp.body, "url")

\* two failed attempts, then 200 with {correct: true, url: next} on the third
C3_Witness ==
    /\ pc = "returned"
    /\ last_resp.status = 200
    /\ last_resp.body = [correct |-> "True", url |-> "q2"]
    /\ posts = max_retries
    /\ sleeps = max_retries - 1
    /\ result.attempt = max_retries
    /\ result.next_url = "q2"

\* ---- C4: a submission whose max_retries attempts all ended without an
\* HTTP 200 returns correct = false, an error and attempt = max_retries
C4_ExhaustedReportsAttempts ==
    (/\ pc = "returned"
     /\ posts = max_retries
     /\ first200 = 0)
      => /\ result.correct = "False"
         /\ "error" \in DOMAIN result
         /\ "attempt" \in DOMAIN result
         /\ result.attempt = max_retries

\* ---- C5 as stated: no URL is passed to _solve_single_quiz twice
C5_NoUrlTwice ==
    \A i, j \in 1..Len(Visited) : i < j => Visited[i] # Visited[j]

\* ---- C5 amended: a URL is solved again only when the verdict of the step
\* just before names it as the next URL
C5_RevisitOnlyServerDirected ==
    \A i, j \in 1..Len(Visited) :
        (i < j /\ Visited[i] = Visited[j]) =>
            Get(results[j - 1], "next_url") = Visited[j]

\* the same page solved twice in a row at the server's direction
C5_Witness ==
    /\ Len(results) = 2
    /\ results[1].url = results[2].url
    /\ Get(results[1], "next_url") = results[2].url

\* ---- C6: the renderer is started once, close() has been invoked in every
\* terminated session, and nothing runs after close()
C6_ReleasedOnEveryExit ==
    /\ start_calls <= 1
    /\ pc = "done" => close_calls = 1
    /\ close_calls > 0 => pc = "done"
    /\ pc \in StepPcs => (start_calls = 1 /\ page /\ close_calls = 0)

\* a session that ended because the renderer did not start
C6_Witness ==
    /\ pc = "done"
    /\ summary.success = "False"
    /\ close_calls = 1
    /\ "playwright" \notin open

\* ---- C7: when the check at the top of the loop finds the budget exceeded
\* with a URL pending, no step is started and the session returns
\* success = true with exactly the steps completed so far
C7_DeadlineStops ==
    [][(/\ pc = "loop"
        /\ Truthy(current_url)
        /\ now - start_time > MAX_QUIZ_TIME_SECONDS)
         => /\ pc' = "close"
            /\ summary' = [success |-> "True", results |-> results,
                           total_time |-> now - start_time]
            /\ results' = results
            /\ url' = url
            /\ step_started' = NoTime
            /\ navs' = 0 /\ posts' = 0]_vars

\* the budget ran out during the second step, which yielded a third URL
C7_Witness ==
    /\ pc = "done"
    /\ Len(results) = 2
    /\ Truthy(Get(results[2], "next_url"))
    /\ current_url = results[2].next_url
    /\ summary.success = "True"
    /\ summary.results = results
    /\ summary.total_time > MAX_QUIZ_TIME_SECONDS

\* ---- C8: a verdict that names a next URL always moves the session to that
\* URL, correct or not; the loop continues with no other URL; and the page
\* solved next is the pending URL when the deadline has not passed
C8_FollowsNextUrl ==
    [][/\ (pc = "returned" /\ Truthy(Get(result, "next_url")))
            => (pc' = "loop" /\ current_url' = result.next_url)
       /\ (pc = "returned" /\ pc' = "loop")
            => (Truthy(Get(result, "next_url")) /\ current_url' = result.next_url)
       /\ (pc = "loop" /\ Truthy(current_url)
             /\ now - start_time <= MAX_QUIZ_TIME_SECONDS)
            => (pc' = "nav" /\ url' = current_url)]_vars

\* a wrong answer whose verdict named another page, now being solved
C8_Witness ==
    /\ pc = "nav"
    /\ Len(results) = 1
    /\ results[1].correct = "False"
    /\ Truthy(Get(results[1], "next_url"))
    /\ url = results[1].next_url
    /\ url # results[1].url

C10_CorrectWithoutNextSucceeds ==
    \A i \in 1..Len(results) :
        (Truthy(Get(results[i], "correct")) /\ NoNext(results[i])) =>
            /\ i = Len(results)
            /\ pc \in {"close", "done"}
            /\ summary.success = "True"
            /\ summary.results = results

\* the second page answered correctly, no further URL
C10_Witness ==
    /\ pc = "done"
    /\ Len(results) = 2
    /\ results[2].correct = "True"
    /\ NoNext(results[2])
    /\ summary.success = "True"

\* ---- C11: when neither _extract_question_info nor _extract_submit_url finds
\* a submit URL in the HTML, the step posts nothing, its result has
\* correct = None, an error text and the produced answer, and once that
\* result is in the history the loop is over: it is the last entry
NoSubmitUrl == ~Truthy(question_info.submit_url) /\ ~Truthy(ExtractSubmitUrl(html))

NoSubmitEndsLoop ==
    \A i \in 1..Len(results) :
        Get(results[i], "error") = "No submit URL found" =>
            /\ i = Len(results)
            /\ pc \in {"close", "done"}

C11_NoSubmitUrlStops ==
    [][/\ (pc \in {"solve", "fallback"} /\ NoSubmitUrl) =>
            /\ pc' # "post"
            /\ posts' = 0
            /\ (pc' = "returned" /\ "answer" \in DOMAIN result') =>
                  /\ result'.correct = None
                  /\ Truthy(Get(result', "error"))
                  /\ result'.answer \in Answers
                  /\ NoNext(result')
       /\ NoSubmitEndsLoop']_vars

\* a session over after a page without submit URL: answered, never posted
C11_Witness ==
    /\ pc = "done"
    /\ results # <<>>
    /\ Get(Last(results), "error") = "No submit URL found"
    /\ Last(results).answer \in Answers
    /\ summary.results = results

\* ---- C12: the kind of a page is that of the first rule, in the order
\* download/file, api/endpoint, sum/calculate/table, visualize/chart/plot,
\* pdf, one of whose keywords occurs in the lower-cased text, and general
\* when no rule has one; this for every set of keywords present
ClassifierRules ==
    << [kw |-> {"download", "file"},           kind |-> "file_download"],
       [kw |-> {"api", "endpoint"},            kind |-> "api_fetch"],
       [kw |-> {"sum", "calculate", "table"},  kind |-> "data_analysis"],
       [kw |-> {"visualize", "chart", "plot"}, kind |-> "visualization"],
       [kw |-> {"pdf"},                        kind |-> "pdf_analysis"] >>

Matching(text) ==
    {i \in DOMAIN ClassifierRules : ClassifierRules[i].kw \cap text # {}}

FirstMatchKind(text) ==
    IF Matching(text) = {} THEN "general"
    ELSE ClassifierRules[CHOOSE i \in Matching(text) :
                            \A j \in Matching(text) : i <= j].kind

C12_FirstMatchWins ==
    (fn.pc = "done" /\ fn.op = "classify") =>
        fn.out.type = FirstMatchKind(fn.text)

\* a text naming an API and a PDF, with a plot: classified api_fetch
C12_Witness ==
    /\ fn.pc = "done"
    /\ fn.op = "classify"
    /\ fn.text = {"api", "pdf", "plot"}
    /\ fn.out.type = "api_fetch"

\* ---- C13: an exception raised by the handler of a kind never ends the
\* step from inside the try block of _solve_question: it leads to exactly
\* one more call of the general path, and the step then fails only if that
\* call of the Reasoner fails; otherwise the page has its answer
IsErrorResult(r) == "error" \in DOMAIN r /\ "answer" \notin DOMAIN r

C13_KindFailureFallsBack ==
    [][/\ pc = "solve" => ~(pc' = "returned" /\ IsErrorResult(result'))
       /\ pc = "fallback" =>
            /\ llm_calls' = llm_calls + 1
            /\ pc' \in {"post", "returned"}
            /\ (pc' = "returned" /\ IsErrorResult(result')) =>
                  result'.error = "llm"
            /\ pc' = "post" => answer' \in Answers]_vars

\* the handler of a file page has raised before any call of the Reasoner
C13_Witness ==
    /\ pc = "fallback"
    /\ question_info.type = "file_download"
    /\ llm_calls = 0

\* ---- C14: of two sessions running side by side, a step taken by one
\* leaves the other's solver (start time, current URL, history, summary,
\* position) and the other's BrowserManager exactly as they were
C14_SessionsIndependent ==
    [][multi.pc = "run" =>
         \A s \in Sessions :
            multi'.actor # s =>
               /\ multi'.solver[s] = multi.solver[s]
               /\ multi'.browsers[multi.solver[s].browser]
                     = multi.browsers[multi.solver[s].browser]]_vars

\* session a is over and has closed its browser while session b, started
\* later, is in the middle of its first step on a page that is still open
C14_Witness ==
    /\ multi.pc = "run"
    /\ multi.solver["a"].pc = "done"
    /\ Len(multi.solver["a"].results) = 1
    /\ ~multi.browsers[multi.solver["a"].browser].open
    /\ multi.solver["b"].pc = "submit"
    /\ multi.solver["b"].results = <<>>
    /\ multi.solver["b"].start_time > multi.solver["a"].start_time
    /\ multi.browsers[multi.solver["b"].browser].open

\* ---- C15: the history only grows, and only by the result of the step
\* that has just returned, put at its end; entries already there keep their
\* place and value; and its length is the number of steps begun, less the
\* one that is still under way
C15_HistoryAppendOnly ==
    [][/\ \/ results' = results
          \/ /\ pc = "returned"
             /\ result.url = url
             /\ results' = Append(results, result)
       /\ Len(results') = steps_begun' - (IF pc' \in StepPcs THEN 1 ELSE 0)]_vars

\* two steps begun and two entries, the second one of a step that failed
C15_Witness ==
    /\ pc = "done"
    /\ steps_begun = 2
    /\ Len(results) = 2
    /\ IsErrorResult(results[2])

\* ---- C16: a request to /solve or /solve-sync whose secret is not
\* Config.SECRET never has a QuizSolver made or a solve_quiz begun for it,
\* and the response it gets is HTTP 403
C16_WrongSecretRejected ==
    (api.pc # "idle" /\ api.body = "object" /\ api.secret # api.config_secret) =>
        /\ api.solvers = 0
        /\ api.sessions = 0
        /\ api.task = None
        /\ api.pc \in {"received", "responded"}
        /\ api.pc = "responded" => api.status = 403

\* /solve-sync answered 403 for an empty secret
C16_Witness ==
    /\ api.pc = "responded"
    /\ api.endpoint = "/solve-sync"
    /\ api.secret = ""
    /\ api.status = 403
    /\ api.solvers = 0

\* ---- C17: the body of every POST of a step has exactly the keys email,
\* secret, url and answer; email and secret are the solver's, which no step
\* changes; url is the URL of the quiz page, not the submit URL; answer is
\* the answer produced for the page, and a retry posts the body again as is
C17_PayloadOfEveryAttempt ==
    [][/\ posts' = posts + 1 =>
            /\ DOMAIN sent' = {"email", "secret", "url", "answer"}
            /\ sent'.email = email
            /\ sent'.secret = secret
            /\ sent'.url = url
            /\ sent'.url # submit_url
            /\ sent'.answer = answer
            /\ posts > 0 => sent' = sent
       /\ email' = email
       /\ secret' = secret]_vars

\* the third attempt of a step has been posted
C17_Witness ==
    /\ posts = max_retries
    /\ sent # NoPayload
    /\ sent.url = url
    /\ sent.answer \in Answers

\* ---- C18: whatever path solve_quiz returns by, the summary it returns
\* has the three keys success, results and total_time
C18_SummaryHasAllFields ==
    summary # NoSummary =>
        {"success", "results", "total_time"} \subseteq DOMAIN summary

\* ---- C19: on a file page whose first data URL ends in .csv and can be
\* downloaded, whose text has the word sum and, in double quotes, the name
\* of a column of the CSV, the answer is the sum of that column and the
\* Reasoner is not called, whether or not it would have answered
SumOfColumn(c) ==
    /\ ~fn.out.raised
    /\ fn.out.llm_calls = 0
    /\ fn.out.answer = [type |-> "float", value |-> SeqSum(fn.table[c])]

CsvSumCall ==
    /\ fn.pc = "done"
    /\ fn.op = "file"
    /\ fn.urls # <<>>
    /\ fn.urls[1].tail = ".csv"
    /\ fn.reachable
    /\ "sum" \in fn.ops

DigitsAt(s) == {i \in 1..Len(s) : s[i] \in Digits}
FirstDigit(s) == CHOOSE i \in DigitsAt(s) : \A k \in DigitsAt(s) : i <= k
\* the last position of the row of digits that begins at i
RowEnd(s, i) ==
    CHOOSE j \in i..Len(s) :
        /\ \A k \in i..j : s[k] \in Digits
        /\ j = Len(s) \/ s[j + 1] \notin Digits
NonBlank(s) == {i \in 1..Len(s) : s[i] # " "}
Trimmed(s) ==
    IF NonBlank(s) = {} THEN <<>>
    ELSE SubSeq(s, CHOOSE i \in NonBlank(s) : \A k \in NonBlank(s) : i <= k,
                   CHOOSE i \in NonBlank(s) : \A k \in NonBlank(s) : i >= k)

\* the reply s is coerced to out; a point right after the digits belongs
\* to the token always (pointAlone) or only when a digit follows it
CoercedTo(s, out, pointAlone) ==
    IF DigitsAt(s) = {} THEN out = [type |-> "str", text |-> Trimmed(s)]
    ELSE LET i == FirstDigit(s)
             j == RowEnd(s, i)
             neg == i > 1 /\ s[i - 1] = "-"
             whole == IntOf(SubSeq(s, i, j))
             point == j < Len(s) /\ s[j + 1] = "."
             after == IF point THEN DigitRun(s, j + 2) ELSE 0
             float == point /\ (pointAlone \/ after > 0)
         IN  IF float
               THEN out = [type |-> "float", neg |-> neg, whole |-> whole,
                           frac |-> TrimZeros(SubSeq(s, j + 2, j + 1 + after))]
               ELSE out = [type |-> "int",
                           value |-> IF neg THEN 0 - whole ELSE whole]

\* as claimed: a float only when the token has fractional digits
C20_FloatOnlyWithFraction ==
    (fn.pc = "done" /\ fn.op = "coerce") => CoercedTo(fn.resp, fn.out, FALSE)

\* as the code has it: a float whenever a point follows the digits
C20_FloatWheneverPoint ==
    (fn.pc = "done" /\ fn.op = "coerce") => CoercedTo(fn.resp, fn.out, TRUE)

\* the reply "x-7." coerced to the float -7.0
C20_Witness ==
    /\ fn.pc = "done"
    /\ fn.op = "coerce"
    /\ fn.resp = <<"x", "-", "7", ".">>
    /\ fn.out = [type |-> "float", neg |-> TRUE, whole |-> 7, frac |-> <<>>]

C22_InvalidJsonIs400 ==
    (api.pc = "responded" /\ api.endpoint = "/solve" /\ api.body = "not_json") =>
        /\ api.status = 400
        /\ api.solvers = 0
        /\ api.sessions = 0

\* ---- C23: the steps of a session are one pipeline.  Every action makes
\* at most one external call; within a step the two page loads come first,
\* then the calls of the answer producer, then the POSTs; and a page is
\* loaded only when the results of all earlier steps are in the history,
\* the URL loaded being the one the latest result leads to
C23_OnePipeline ==
    [][/\ (navs' - navs) + (llm_calls' - llm_calls) + (posts' - posts) <= 1
       /\ navs' > navs =>
            /\ pc \in {"nav", "text"}
            /\ llm_calls = 0 /\ posts = 0
            /\ Len(results) = steps_begun - 1
       /\ llm_calls' > llm_calls =>
            /\ pc \in {"solve", "fallback"}
            /\ navs = 2 /\ posts = 0
       /\ posts' > posts =>
            /\ pc = "post"
            /\ navs = 2
       /\ (pc = "loop" /\ pc' = "nav") =>
            /\ Len(results) = steps_begun
            /\ navs = 0 /\ llm_calls = 0 /\ posts = 0
            /\ results # <<>> =>
                  url' \in {Get(Last(results), "next_url"), Last(results).url}]_vars

\* the second page is being loaded, the first one having been submitted
\* and its verdict recorded
C23_Witness ==
    /\ pc = "text"
    /\ navs = 1
    /\ steps_begun = 2
    /\ Len(results) = 1
    /\ "attempt" \in DOMAIN results[1]
    /\ url = results[1].next_url

\* ---- C24: the deadline is cooperative.  start_time is written once; a
\* step that has begun leaves only by returning its result, whatever the
\* clock says; the returned result is appended to the history; and a
\* submission that is given up has made all its attempts and taken all its
\* back-offs, also when the time ran out during the step
C24_StepRunsToCompletion ==
    [][/\ start_time # NoTime => start_time' = start_time
       /\ (pc \in StepPcs /\ pc # "returned") => pc' \in StepPcs
       /\ pc = "returned" => results' = Append(results, result)
       /\ (pc = "post" /\ pc' = "returned" /\ "attempt" \notin DOMAIN result') =>
            /\ posts' = max_retries
            /\ sleeps = max_retries - 1]_vars

\* a step returns a given-up submission after all attempts and back-offs,
\* the time budget having run out since the step began
C24_Witness ==
    /\ pc = "returned"
    /\ result = ExhaustedResult(url, "42")
    /\ posts = max_retries
    /\ sleeps = max_retries - 1
    /\ ~TimeExceeded(step_started, start_time)
    /\ TimeExceeded(now, start_time)

\* ---- C25: in _submit_answer a back-off of one second follows a failed
\* attempt exactly when attempts remain: a submission accepted at attempt k
\* has taken k - 1 back-offs, a submission given up has taken
\* max_retries - 1, and no back-off follows the last attempt
C25_BackoffBetweenAttempts ==
    [][/\ sleeps' > sleeps =>
            /\ sleeps' = sleeps + 1
            /\ now' = now + BackoffSeconds
            /\ ~Accepted(last_resp)
            /\ posts < max_retries
       /\ (pc = "post" /\ pc' = "returned" /\ "attempt" \in DOMAIN result') =>
            /\ posts' = result'.attempt
            /\ sleeps' = result'.attempt - 1
       /\ (pc = "post" /\ pc' = "returned" /\ "attempt" \notin DOMAIN result') =>
            /\ posts' = max_retries
            /\ sleeps' = max_retries - 1
       /\ (pc = "post" /\ posts' < max_retries /\ ~Accepted(last_resp')) =>
            pc' = "sleep"]_vars

\* a submission accepted at its last attempt, after two failed attempts
\* and two back-offs
C25_Witness ==
    /\ pc = "returned"
    /\ "attempt" \in DOMAIN result
    /\ result.attempt = max_retries
    /\ sleeps = max_retries - 1
    /\ posts = max_retries
    /\ Accepted(last_resp)

\* ---- C26: a page load that times out does not fail the step: the
\* content is returned and the step goes on to its next stage.  A page load
\* that fails otherwise (navigate raises, or the text cannot be read) ends
\* the step with an error result, and that result ends the session: it is
\* appended, no further page is loaded and the summary is returned
C26_TimeoutIsNotFailure ==
    [][/\ (pc = "nav" /\ last_nav' = "timeout") =>
            /\ pc' = "text"
            /\ html' \in Htmls
            /\ result' = NoResult
       /\ (pc = "text" /\ last_nav' = "timeout") =>
            /\ pc' = "solve"
            /\ question_info' # NoInfo
            /\ result' = NoResult
       /\ (pc \in {"nav", "text"} /\ last_nav' \in {"error", "evaluate"}) =>
            /\ pc' = "returned"
            /\ IsErrorResult(result')
       /\ (pc = "returned" /\ last_nav \in {"error", "evaluate"}) =>
            /\ results' = Append(results, result)
            /\ pc' = "close"
            /\ summary'.success = "True"
            /\ current_url' = current_url]_vars

\* the second page load of a step timed out and the step has gone on: the
\* page is classified and its answer is about to be produced
C26_Witness ==
    /\ pc = "solve"
    /\ last_nav = "timeout"
    /\ navs = 2
    /\ Len(html) > 0
    /\ question_info.type = "file_download"

\* ---- C27: in the analysis of a table, when the text has one of the words
\* sum, mean, count, max and no quoted string of it is a column of the
\* table, the operation is applied to the whole table and the Reasoner is
\* not called.  Stated for texts with one of the words, on the CSV branch
\* of _solve_file_question.
CsvCall ==
    /\ fn.pc = "done"
    /\ fn.op = "file"
    /\ fn.urls # <<>>
    /\ fn.urls[1].tail = ".csv"
    /\ fn.reachable

NoQuotedColumn == \A i \in DOMAIN fn.quoted : fn.quoted[i] \notin DOMAIN fn.table

Cells(t) == UNION {{t[c][i] : i \in DOMAIN t[c]} : c \in DOMAIN t}
TableMax(t) == CHOOSE m \in Cells(t) : \A x \in Cells(t) : x <= m
RowCount(t) == Len(t[CHOOSE c \in DOMAIN t : TRUE])

OfWholeTable(v) ==
    /\ ~fn.out.raised
    /\ fn.out.llm_calls = 0
    /\ "value" \in DOMAIN fn.out.answer
    /\ fn.out.answer.value = v

C27_KeywordAggregatesWholeTable ==
    (CsvCall /\ NoQuotedColumn) =>
        /\ fn.ops = {"sum"} => OfWholeTable(TableSum(fn.table))
        /\ fn.ops = {"mean"} => OfWholeTable(TableMean(fn.table))
        /\ fn.ops = {"count"} => OfWholeTable(RowCount(fn.table))
        /\ fn.ops = {"max"} => OfWholeTable(TableMax(fn.table))

\* ---- C28: on a file_download or pdf_analysis page the file URL is the
\* first data URL whose path ends in .pdf, .csv, .json, .xlsx or .xls; a
\* data URL whose path ends otherwise is never taken; and when no data URL
\* has such a path, the general path is taken and nothing is downloaded
FileCall == fn.pc = "done" /\ fn.op = "file"

Qualifying(us) == {i \in DOMAIN us : us[i].ext # None}

FirstQualifying(us) ==
    us[CHOOSE i \in Qualifying(us) : \A k \in Qualifying(us) : i <= k].name

C28_FileUrlByPathExtension ==
    FileCall =>
        IF Qualifying(fn.urls) # {}
          THEN fn.out.file_url = FirstQualifying(fn.urls)
          ELSE /\ fn.out.file_url = None
               /\ fn.out.downloads = 0
               /\ fn.out.llm_calls = 1

\* ---- C29: when every awaited call returns and every step takes time, a
\* session returns its summary, whatever the scoring endpoint answers (a
\* next URL with every verdict included), and the number of steps it
\* begins is bounded by the time budget: a step of at least SlowCall
\* seconds begins only within MAX_QUIZ_TIME_SECONDS of the start
C29_SessionReturns ==
    /\ <>(pc = "done" /\ summary # NoSummary)
    /\ [](steps_begun <= MAX_QUIZ_TIME_SECONDS \div SlowCall + 1)

\* a session that was given a next URL with every verdict and has returned
\* its summary
C29_Witness ==
    /\ pc = "done"
    /\ summary # NoSummary
    /\ steps_begun = MAX_QUIZ_TIME_SECONDS \div SlowCall + 1
    /\ Len(results) = steps_begun
    /\ \A i \in DOMAIN results : Truthy(Get(results[i], "next_url"))
    /\ Truthy(current_url)

\* ---- C30: a failure of the Reasoner on the general path leaves
\* _solve_question: once the call of _solve_general_question made inside
\* the try block has failed (the step waits in the except block with one
\* Reasoner call made), the step returns an error result without an answer
\* and without a POST, and that result ends the session
C30_ReasonerFailureEndsStep ==
    [][/\ (pc = "fallback" /\ llm_calls = 1) =>
            /\ pc' = "returned"
            /\ IsErrorResult(result')
            /\ posts' = 0
       /\ (pc = "returned" /\ IsErrorResult(result) /\ llm_calls >= 1) =>
            /\ results' = Append(results, result)
            /\ pc' = "close"]_vars

\* ---- C31: solve_quiz never raises.  Whatever fails while the browser is
\* started, while pages are solved or while the browser is closed, the
\* call ends with a summary, and closing the browser, failing or not,
\* leaves the summary as it was
C31_AlwaysReturnsSummary ==
    [][/\ pc' = "done" =>
            /\ summary' # NoSummary
            /\ summary'.success \in {"True", "False"}
       /\ pc = "close" =>
            /\ summary # NoSummary
            /\ summary' = summary
            /\ pc' = "done"]_vars

\* a session that solved a page has returned its summary although closing
\* the browser failed and left it open
C31_Witness ==
    /\ pc = "done"
    /\ close_calls = 1
    /\ open # {}
    /\ Len(results) >= 1
    /\ summary = SuccessSummary(results, now, start_time)

\* ---- C32: a summary with success False has an empty history: it comes
\* from a failing start of the browser before the first step and from
\* nothing else.  A failure inside a step becomes that step's result, and
\* the session that ends on it returns success True
C32_FailureOnlyBeforeFirstStep ==
    summary # NoSummary =>
        /\ summary.success = "False" =>
              /\ summary.results = <<>>
              /\ results = <<>>
              /\ steps_begun = 0
              /\ ~page
        /\ (results # <<>> /\ IsErrorResult(Last(results))) =>
              /\ summary.success = "True"
              /\ summary.results = results

\* the browser could not be launched: the summary returned reports the
\* failure, with no step begun
C32_Witness ==
    /\ pc = "done"
    /\ summary = FailureSummary(<<>>, "launch")
    /\ steps_begun = 0
    /\ start_calls = 1

\* ---- C33: in _submit_answer an HTTP 200 whose body does not parse as a
\* JSON object is treated like a failed request: the attempt returns
\* nothing; when attempts remain the back-off is taken and the same payload
\* is posted again; when it was the last attempt the result is the one of
\* an exhausted submission, with correct False
UnparseableOk(r) == r.status = 200 /\ r.body = BadBody

C33_UnparseableBodyRetried ==
    [][/\ (pc = "post" /\ posts' > posts /\ UnparseableOk(last_resp')) =>
            IF attempt < max_retries - 1
              THEN /\ pc' = "sleep"
                   /\ result' = NoResult
                   /\ payload' = payload
              ELSE /\ pc' = "returned"
                   /\ result' = ExhaustedResult(url, answer)
                   /\ result'.correct = "False"
                   /\ "next_url" \notin DOMAIN result'
       /\ (pc = "sleep" /\ UnparseableOk(last_resp)) =>
            /\ pc' = "post"
            /\ attempt' = attempt + 1
            /\ sleeps' = sleeps + 1
            /\ payload' = payload]_vars

\* the first attempt and the last one were answered with an HTTP 200 that
\* does not parse, and the submission is given up after all attempts
C33_Witness ==
    /\ pc = "returned"
    /\ first200 = 1
    /\ UnparseableOk(last_resp)
    /\ posts = max_retries
    /\ sleeps = max_retries - 1
    /\ result = ExhaustedResult(url, "42")

\* ---- C34: a step whose submission was given up after max_retries
\* attempts ends the session.  Its result names no next URL; it is the
\* last entry of the history; once it is appended the session is leaving,
\* with no page load and no POST since, and the summary says success True
IsExhausted(r) ==
    /\ "answer" \in DOMAIN r
    /\ Get(r, "error") = "Failed to submit after retries"

C34_ExhaustedSubmissionEnds ==
    /\ (pc = "returned" /\ IsExhausted(result)) =>
          /\ posts = max_retries
          /\ ~Accepted(last_resp)
          /\ "next_url" \notin DOMAIN result
    /\ \A i \in 1..Len(results) :
          IsExhausted(results[i]) =>
              /\ i = Len(results)
              /\ "next_url" \notin DOMAIN results[i]
              /\ pc \in {"close", "done"}
              /\ navs = 0 /\ posts = 0
              /\ steps_begun = Len(results)
              /\ summary = SuccessSummary(results, now, start_time)
              /\ summary.success = "True"

\* the second page of a session was given up, and the session has returned
C34_Witness ==
    /\ pc = "done"
    /\ Len(results) = 2
    /\ results[1].correct = "False"
    /\ results[2] = ExhaustedResult(results[1].next_url, "42")
    /\ Truthy(current_url)
    /\ summary.success = "True"

\* ---- C35: a step loads its page twice before the page is classified:
\* once in navigate, for the HTML, and once more inside extract_text, for
\* the text.  The HTML used afterwards is the one of the first load, and a
\* second load that fails ends the step with an error result although the
\* first load had succeeded
C35_PageLoadedTwice ==
    [][/\ navs' > navs =>
            /\ pc \in {"nav", "text"}
            /\ navs' = navs + 1
       /\ (pc = "nav" /\ pc' = "text") =>
            /\ navs' = 1
            /\ html' \in Htmls
       /\ (pc = "text" /\ pc' = "solve") =>
            /\ navs = 1 /\ navs' = 2
            /\ html' = html
            /\ question_info' # NoInfo
            /\ question_info'.submit_url = ExtractSubmitUrl(html)
       /\ (pc = "text" /\ pc' = "returned") =>
            /\ navs' = 2
            /\ last_nav' \in {"error", "evaluate"}
            /\ IsErrorResult(result')
       /\ pc' \in {"solve", "fallback", "post", "sleep"} => navs' = 2]_vars

\* the first load of the page succeeded, the second one raised, and the
\* step has ended with an error result
C35_Witness ==
    /\ pc = "returned"
    /\ navs = 2
    /\ last_nav = "error"
    /\ result = ErrorResult(url, "extract_text")
====
